---- MODULE Spec2Model ----
(***************************************************************************)
(* Model of the ESLint rule enforce-variable-naming-convention             *)
(* (eslint-plugin-variable-naming).                                        *)
(*                                                                         *)
(* Strings are sequences of one-character strings.  Regular expressions    *)
(* are records [anchorStart, atoms, anchorEnd]; an atom is a character     *)
(* class with an optional star.  The rule's closure state is the resolved  *)
(* configuration cfg; the visitor is one action per visited declarator.    *)
(***************************************************************************)
EXTENDS Naturals, Sequences, FiniteSets, TLC

VARIABLES
    cfg,          \* options resolved by create(context)
    node,         \* the declarator being visited, or NoNode between visits
    out,          \* what the visit of node did, or Idle between visits
    crashed,      \* an exception escaped the visitor (the lint run is aborted)
    convCase,     \* converter table: the convention under test
    convName,     \* converter table: the input name
    validated,    \* caseValidators[convCase](convName), once computed
    converted,    \* caseConverters[convCase](convName), once computed
    reconverted   \* caseConverters[convCase](converted), once computed

vars == <<cfg, node, out, crashed, convCase, convName, validated, converted, reconverted>>

----------------------------------------------------------------------------
(* Bounds *)

\* longest identifier of a visited declarator
MaxIdLen == 2
\* longest name fed to the converter table
MaxNameLen == 4
\* deepest nesting of call expressions in a callee (curried calls)
MaxCurry == 1

----------------------------------------------------------------------------
(* Characters and JavaScript string primitives *)

LowerSeq == <<"a","b","c","d","e","f","g","h","i","j","k","l","m",
              "n","o","p","q","r","s","t","u","v","w","x","y","z">>
UpperSeq == <<"A","B","C","D","E","F","G","H","I","J","K","L","M",
              "N","O","P","Q","R","S","T","U","V","W","X","Y","Z">>
DigitSeq == <<"0","1","2","3","4","5","6","7","8","9">>

Range(s) == { s[i] : i \in 1..Len(s) }

LowerChars == Range(LowerSeq)
UpperChars == Range(UpperSeq)
DigitChars == Range(DigitSeq)
AlnumChars == LowerChars \cup UpperChars \cup DigitChars
\* what '.' matches: every character that occurs (none is a line terminator)
AnyChars == AlnumChars \cup {"_", "-", "[", "."}

\* String.prototype.toUpperCase / toLowerCase on one character
CharToUpper(c) ==
    IF c \in LowerChars
    THEN UpperSeq[CHOOSE i \in 1..Len(LowerSeq) : LowerSeq[i] = c]
    ELSE c

CharToLower(c) ==
    IF c \in UpperChars
    THEN LowerSeq[CHOOSE i \in 1..Len(UpperSeq) : UpperSeq[i] = c]
    ELSE c

toUpperCase(s) == [i \in 1..Len(s) |-> CharToUpper(s[i])]
toLowerCase(s) == [i \in 1..Len(s) |-> CharToLower(s[i])]

----------------------------------------------------------------------------
(* Regular expressions *)

Atom(chars) == [chars |-> chars, star |-> FALSE]
Star(chars) == [chars |-> chars, star |-> TRUE]

\* does the pattern's atom k and what follows match s from position i on
RECURSIVE MatchAt(_, _, _, _)
MatchAt(p, k, s, i) ==
    IF k > Len(p.atoms)
    THEN (~p.anchorEnd) \/ i = Len(s) + 1
    ELSE LET a == p.atoms[k] IN
         IF a.star
         THEN \/ MatchAt(p, k + 1, s, i)
              \/ (i <= Len(s) /\ s[i] \in a.chars /\ MatchAt(p, k, s, i + 1))
         ELSE i <= Len(s) /\ s[i] \in a.chars /\ MatchAt(p, k + 1, s, i + 1)

\* RegExp.prototype.test: a search, anchored only where the pattern says so
RegExpTest(p, s) ==
    \E i \in 1..(IF p.anchorStart THEN 1 ELSE Len(s) + 1) : MatchAt(p, 1, s, i)

----------------------------------------------------------------------------
(* CaseConvention table *)

CaseTypes == {"camelCase", "PascalCase", "snake_case", "UPPER_SNAKE_CASE", "kebab-case"}

\* the five shape patterns of caseValidators
CasePattern(caseType) ==
    CASE caseType = "camelCase" ->
           [anchorStart |-> TRUE, anchorEnd |-> TRUE,
            atoms |-> <<Atom(LowerChars), Star(AlnumChars)>>]
      [] caseType = "PascalCase" ->
           [anchorStart |-> TRUE, anchorEnd |-> TRUE,
            atoms |-> <<Atom(UpperChars), Star(AlnumChars)>>]
      [] caseType = "snake_case" ->
           [anchorStart |-> TRUE, anchorEnd |-> TRUE,
            atoms |-> <<Atom(LowerChars), Star(LowerChars \cup DigitChars \cup {"_"})>>]
      [] caseType = "UPPER_SNAKE_CASE" ->
           [anchorStart |-> TRUE, anchorEnd |-> TRUE,
            atoms |-> <<Atom(UpperChars), Star(UpperChars \cup DigitChars \cup {"_"})>>]
      [] caseType = "kebab-case" ->
           [anchorStart |-> TRUE, anchorEnd |-> TRUE,
            atoms |-> <<Atom(LowerChars), Star(LowerChars \cup DigitChars \cup {"-"})>>]

\* mutant: the first character class made optional, so '' validates
caseValidators_EmptyValid(caseType, name) ==
    name = <<>> \/ RegExpTest(CasePattern(caseType), name)

caseValidators(caseType, name) == RegExpTest(CasePattern(caseType), name)

\* name.replace(/[-_](.)/g, (_, char) => char.toUpperCase()), scanning from i
RECURSIVE ReplaceSeparators(_, _)
ReplaceSeparators(s, i) ==
    IF i > Len(s) THEN <<>>
    ELSE IF s[i] \in {"-", "_"} /\ i + 1 <= Len(s)
         THEN <<CharToUpper(s[i + 1])>> \o ReplaceSeparators(s, i + 2)
         ELSE <<s[i]>> \o ReplaceSeparators(s, i + 1)

\* name.replace(/([A-Z])/g, sep + '$1'), scanning from i
RECURSIVE PrefixUppers(_, _, _)
PrefixUppers(s, sep, i) ==
    IF i > Len(s) THEN <<>>
    ELSE IF s[i] \in UpperChars
         THEN <<sep, s[i]>> \o PrefixUppers(s, sep, i + 1)
         ELSE <<s[i]>> \o PrefixUppers(s, sep, i + 1)

\* s.replace(/^(.)/, (char) => f(char)) for f = toLowerCase / toUpperCase
LowerFirst(s) == IF s = <<>> THEN s ELSE <<CharToLower(s[1])>> \o Tail(s)
UpperFirst(s) == IF s = <<>> THEN s ELSE <<CharToUpper(s[1])>> \o Tail(s)

\* s.replace(/^_/, '') and s.replace(/^-/, '')
DropLeading(s, sep) == IF s # <<>> /\ s[1] = sep THEN Tail(s) ELSE s

caseConverters(caseType, name) ==
    CASE caseType = "camelCase" -> LowerFirst(ReplaceSeparators(name, 1))
      [] caseType = "PascalCase" -> UpperFirst(ReplaceSeparators(name, 1))
      [] caseType = "snake_case" ->
           DropLeading(toLowerCase(PrefixUppers(name, "_", 1)), "_")
      [] caseType = "UPPER_SNAKE_CASE" ->
           DropLeading(toUpperCase(PrefixUppers(name, "_", 1)), "_")
      [] caseType = "kebab-case" ->
           DropLeading(toLowerCase(PrefixUppers(name, "-", 1)), "-")

----------------------------------------------------------------------------
(* Identifiers that occur in the analysed sources *)

Name_lazy     == <<"l","a","z","y">>
Name_useState == <<"u","s","e","S","t","a","t","e">>
Name_fetch    == <<"f","e","t","c","h">>
Name_styled   == <<"s","t","y","l","e","d">>
Name_api      == <<"a","p","i">>
Name_gql      == <<"g","q","l">>
Name_memo     == <<"m","e","m","o">>
Name_forwardRef    == <<"f","o","r","w","a","r","d","R","e","f">>
Name_createElement == <<"c","r","e","a","t","e","E","l","e","m","e","n","t">>
Name_createContext == <<"c","r","e","a","t","e","C","o","n","t","e","x","t">>
Name_any      == <<"a","n","y">>
Name_number   == <<"n","u","m","b","e","r">>

\* all strings over alphabet of length lo..hi
StringsOver(alphabet, lo, hi) ==
    UNION { [1..n -> alphabet] : n \in lo..hi }

\* identifiers a declarator can bind: letters and '_' (never '-', never empty)
IdAlphabet == {"a", "A", "_"}
Identifiers == StringsOver(IdAlphabet, 1, MaxIdLen)

----------------------------------------------------------------------------
(* Configuration: the options as resolved at the top of create(context) *)

Null == [null |-> TRUE]

\* new RegExp('^use[A-Z]'), the default hookPattern
HookRegExp ==
    [anchorStart |-> TRUE, anchorEnd |-> FALSE,
     atoms |-> <<Atom({"u"}), Atom({"s"}), Atom({"e"}), Atom(UpperChars)>>]

\* new RegExp('^_.*'), the README's allowedPatterns entry
UnderscoreRegExp ==
    [anchorStart |-> TRUE, anchorEnd |-> FALSE,
     atoms |-> <<Atom({"_"}), Star(AnyChars)>>]

\* new RegExp(source) for the pattern sources the configurations use
RegExpOf(source) ==
    CASE source = "^use[A-Z]" -> HookRegExp
      [] source = "^_.*" -> UnderscoreRegExp

\* hookPattern resolved to null: no RegExp is built (an absent, null or
\* empty option)
NoPattern == "null"

\* defaultOptions, which are also the fallbacks create(context) applies
DefaultOptions ==
    [caseType            |-> "camelCase",
     allowedPatterns     |-> {},
     excludeTypes        |-> {},
     componentCreators   |-> {Name_lazy, Name_styled, Name_createElement, Name_memo,
                              Name_forwardRef, Name_createContext},
     styledLibraries     |-> {Name_styled},
     hookPattern         |-> "^use[A-Z]",
     checkFunctions      |-> FALSE,
     ignoreDestructuring |-> FALSE,
     ignoreImports       |-> FALSE]

\* the lists are kept as sets: the rule only asks includes() and some()
Configs ==
    [caseType            : CaseTypes,
     allowedPatterns     : SUBSET {"^_.*"},
     excludeTypes        : SUBSET {Name_any},
     componentCreators   : SUBSET {Name_lazy},
     styledLibraries     : SUBSET {Name_styled},
     hookPattern         : {NoPattern, "^use[A-Z]"},
     checkFunctions      : BOOLEAN,
     ignoreDestructuring : BOOLEAN,
     ignoreImports       : BOOLEAN]

----------------------------------------------------------------------------
(* Syntax trees: declarators and their initializers *)

Expr(type) == [type |-> type]
IdentifierExpr(name) == [type |-> "Identifier", name |-> name]
\* a member access; text is how sourceCode.getText renders its start
MemberExpr(object, text) == [type |-> "MemberExpression", object |-> object, text |-> text]
CallExpr(callee) == [type |-> "CallExpression", callee |-> callee]
TaggedExpr(tag) == [type |-> "TaggedTemplateExpression", tag |-> tag]

\* Icons['Close'] and props.value
LookupMember == MemberExpr(IdentifierExpr(<<"A">>), <<"A", "[">>)
PlainMember  == MemberExpr(IdentifierExpr(<<"a">>), <<"a", ".">>)

\* styled.div and api.get
MemberCallees ==
    { MemberExpr(IdentifierExpr(n), n \o <<".">>) : n \in {Name_styled, Name_api} }

RECURSIVE Calls(_)
Calls(depth) ==
    LET flat == { CallExpr(IdentifierExpr(n)) : n \in {Name_lazy, Name_useState, Name_fetch} }
                  \cup { CallExpr(m) : m \in MemberCallees }
    IN  IF depth = 0 THEN flat
        ELSE flat \cup { CallExpr(c) : c \in Calls(depth - 1) }

Initializers ==
    { Null, Expr("Literal"), LookupMember, PlainMember,
      Expr("ArrowFunctionExpression"), Expr("FunctionExpression"), Expr("NewExpression") }
        \cup Calls(MaxCurry)
        \cup { TaggedExpr(IdentifierExpr(n)) : n \in {Name_styled, Name_gql} }
        \cup { TaggedExpr(MemberExpr(IdentifierExpr(Name_styled), Name_styled \o <<".">>)) }

\* what the type checker has for the declarator's identifier: the query
\* throws, or it yields a type with its flags and its display string
\* TypeFlags.Any, the bit hasAnyType tests (1 << 0)
TypeFlagsAny == 1
Throws == [throws |-> TRUE]
ResolvedTypes ==
    { Throws,
      [flags |-> TypeFlagsAny, typeString |-> Name_any],
      [flags |-> 2 * 2 * 2, typeString |-> Name_number] }

BindingTargets ==
    [type : {"Identifier"}, name : Identifiers,
     typeAnnotation : {Null, Expr("TSAnyKeyword")}]
        \cup { Expr("ObjectPattern") }

\* a VariableDeclarator together with what the parser services know of it:
\* the type at its identifier and the definitions of its name in scope
Nodes ==
    [id : BindingTargets, init : Initializers, resolved : ResolvedTypes,
     defs : { {"Variable"}, {"Variable", "ImportBinding"} }]

----------------------------------------------------------------------------
(* The rule's helper functions, closed over the configuration c *)

isValidCase(c, name) == caseValidators(c.caseType, name)
convertToCase(c, name) == caseConverters(c.caseType, name)

\* mutant: every() in place of some()
isAllowedByPattern_Every(c, name) ==
    \A pattern \in c.allowedPatterns : RegExpTest(RegExpOf(pattern), name)

isAllowedByPattern(c, name) ==
    \E pattern \in c.allowedPatterns : RegExpTest(RegExpOf(pattern), name)

\* mutant: no try/catch around the type-checker query
hasAnyType_NoCatch(c, n) ==
    IF n.id.type = "Identifier" /\ n.id.typeAnnotation # Null
           /\ n.id.typeAnnotation.type = "TSAnyKeyword"
    THEN [value |-> TRUE, queries |-> 0, threw |-> FALSE]
    ELSE IF n.resolved = Throws
         THEN [value |-> FALSE, queries |-> 1, threw |-> TRUE]
         ELSE IF n.resolved.typeString \in c.excludeTypes
              THEN [value |-> FALSE, queries |-> 1, threw |-> FALSE]
              ELSE [value |-> (n.resolved.flags % 2 = TypeFlagsAny)
                                \/ n.resolved.typeString = Name_any,
                    queries |-> 1, threw |-> FALSE]

\* mutant: the annotation is not looked at before the type checker is asked
hasAnyType_NoAnnotationShortcut(c, n) ==
    IF n.resolved = Throws
    THEN [value |-> FALSE, queries |-> 1, threw |-> FALSE]
    ELSE IF n.resolved.typeString \in c.excludeTypes
         THEN [value |-> FALSE, queries |-> 1, threw |-> FALSE]
         ELSE [value |-> (n.resolved.flags % 2 = TypeFlagsAny)
                           \/ n.resolved.typeString = Name_any,
               queries |-> 1, threw |-> FALSE]

\* [value, queries, threw]: the result, how often the type checker was
\* asked, and whether an exception left the function
hasAnyType(c, n) ==
    IF n.id.type = "Identifier" /\ n.id.typeAnnotation # Null
           /\ n.id.typeAnnotation.type = "TSAnyKeyword"
    THEN [value |-> TRUE, queries |-> 0, threw |-> FALSE]
    ELSE IF n.resolved = Throws
         THEN [value |-> FALSE, queries |-> 1, threw |-> FALSE]
         ELSE IF n.resolved.typeString \in c.excludeTypes
              THEN [value |-> FALSE, queries |-> 1, threw |-> FALSE]
              ELSE [value |-> (n.resolved.flags % 2 = TypeFlagsAny)
                                \/ n.resolved.typeString = Name_any,
                    queries |-> 1, threw |-> FALSE]

RECURSIVE isComponentCreator(_, _)
isComponentCreator(c, init) ==
    IF init = Null THEN FALSE
    ELSE IF c.componentCreators = {} /\ c.styledLibraries = {} THEN FALSE
    ELSE IF init.type = "TaggedTemplateExpression"
         THEN IF init.tag.type = "MemberExpression" /\ init.tag.object.type = "Identifier"
              THEN init.tag.object.name \in c.styledLibraries
              ELSE init.tag.type = "Identifier" /\ init.tag.name \in c.styledLibraries
    ELSE IF init.type = "CallExpression"
         THEN IF init.callee.type = "Identifier"
              THEN init.callee.name \in c.componentCreators
              ELSE IF init.callee.type = "MemberExpression"
                        /\ init.callee.object.type = "Identifier"
                   THEN init.callee.object.name \in c.styledLibraries
                   ELSE IF init.callee.type = "CallExpression"
                        THEN isComponentCreator(c, init.callee)
                        ELSE FALSE
    ELSE FALSE

\* /^[A-Z][a-zA-Z0-9_]*\[/
ComponentLookupRegExp ==
    [anchorStart |-> TRUE, anchorEnd |-> FALSE,
     atoms |-> <<Atom(UpperChars), Star(AlnumChars \cup {"_"}), Atom({"["})>>]

isMemberExpressionComponent(init) ==
    IF init = Null \/ init.type # "MemberExpression" THEN FALSE
    ELSE RegExpTest(ComponentLookupRegExp, init.text)

simpleTypes ==
    {"Literal", "TemplateLiteral", "ArrayExpression", "ObjectExpression", "Identifier",
     "UnaryExpression", "BinaryExpression", "LogicalExpression", "ConditionalExpression",
     "MemberExpression"}

\* mutant: a bare-identifier callee that is no hook falls through to the
\* generic call-expression rule
isSimpleValue_FallThrough(c, n) ==
    LET init == n.init IN
    IF init = Null THEN FALSE
    ELSE IF isComponentCreator(c, init) \/ isMemberExpressionComponent(init) THEN FALSE
    ELSE IF init.type \in simpleTypes THEN TRUE
    ELSE IF init.type = "CallExpression" /\ init.callee.type = "Identifier"
              /\ c.hookPattern # NoPattern
         THEN RegExpTest(RegExpOf(c.hookPattern), init.callee.name)
    ELSE init.type = "CallExpression"

\* mutant: the factory heuristics are not consulted
isSimpleValue_NoFactoryCheck(c, n) ==
    LET init == n.init IN
    IF init = Null THEN FALSE
    ELSE IF init.type \in simpleTypes THEN TRUE
    ELSE IF init.type = "CallExpression" /\ init.callee.type = "Identifier"
         THEN IF c.hookPattern # NoPattern
              THEN RegExpTest(RegExpOf(c.hookPattern), init.callee.name)
              ELSE FALSE
    ELSE init.type = "CallExpression"

isSimpleValue(c, n) ==
    LET init == n.init IN
    IF init = Null THEN FALSE
    ELSE IF isComponentCreator(c, init) \/ isMemberExpressionComponent(init) THEN FALSE
    ELSE IF init.type \in simpleTypes THEN TRUE
    ELSE IF init.type = "CallExpression" /\ init.callee.type = "Identifier"
         THEN IF c.hookPattern # NoPattern
              THEN RegExpTest(RegExpOf(c.hookPattern), init.callee.name)
              ELSE FALSE
    ELSE init.type = "CallExpression"

\* mutant: function expressions are not recognised, only arrow functions
isFunction_ArrowOnly(n) ==
    n.init # Null /\ n.init.type = "ArrowFunctionExpression"

isFunction(n) ==
    n.init # Null /\ n.init.type \in {"ArrowFunctionExpression", "FunctionExpression"}

isImportedVariable(n) ==
    IF n.id.type # "Identifier" THEN FALSE
    ELSE \E def \in n.defs : def = "ImportBinding"

\* mutant: the no-op rename is reported too
reportNamingIssue_NoNoopCheck(c, varName) ==
    LET suggestedName == convertToCase(c, varName) IN
    { [currentName |-> varName, expectedCase |-> c.caseType,
       suggestedName |-> suggestedName, fix |-> suggestedName] }

\* the context.report calls made: none when the rename would be a no-op
reportNamingIssue(c, varName) ==
    LET suggestedName == convertToCase(c, varName) IN
    IF suggestedName = varName THEN {}
    ELSE { [currentName |-> varName, expectedCase |-> c.caseType,
            suggestedName |-> suggestedName, fix |-> suggestedName] }

----------------------------------------------------------------------------
(* The VariableDeclarator visitor *)

\* exit: the return statement the visitor left by; queries: type-checker
\* queries made; reports: the findings emitted; threw: an exception escaped
Outcome(exit, h, isSimple, reports) ==
    [exit |-> exit, queries |-> h.queries, hasAny |-> h.value, isSimple |-> isSimple,
     reports |-> reports, threw |-> h.threw]

NotAsked == [value |-> FALSE, queries |-> 0, threw |-> FALSE]

VariableDeclarator(c, n) ==
    IF n.id.type # "Identifier" /\ c.ignoreDestructuring
    THEN Outcome("ignoreDestructuring", NotAsked, FALSE, {})
    ELSE IF n.id.type # "Identifier"
    THEN Outcome("notIdentifier", NotAsked, FALSE, {})
    ELSE IF c.ignoreImports /\ isImportedVariable(n)
    THEN Outcome("import", NotAsked, FALSE, {})
    ELSE IF isAllowedByPattern(c, n.id.name)
    THEN Outcome("allowed", NotAsked, FALSE, {})
    ELSE IF isFunction(n) /\ ~c.checkFunctions
    THEN Outcome("function", NotAsked, FALSE, {})
    ELSE LET hasAny == hasAnyType(c, n) IN
         IF hasAny.threw
         THEN Outcome("exception", hasAny, FALSE, {})
         ELSE LET isSimple == isSimpleValue(c, n) IN
              IF ~hasAny.value /\ ~isSimple
              THEN Outcome("notInScope", hasAny, isSimple, {})
              ELSE IF ~isValidCase(c, n.id.name)
                   THEN Outcome("checked", hasAny, isSimple,
                                reportNamingIssue(c, n.id.name))
                   ELSE Outcome("valid", hasAny, isSimple, {})

----------------------------------------------------------------------------
(* The rule as a state machine *)

NoNode == [type |-> "NoNode"]
Idle == [exit |-> "idle"]
NotRun == [notRun |-> TRUE]

\* create(context): the options are resolved once; nothing is visited yet
Init ==
    /\ cfg \in Configs
    /\ node = NoNode
    /\ out = Idle
    /\ crashed = FALSE
    /\ convCase = Null
    /\ convName = Null
    /\ validated = NotRun
    /\ converted = NotRun
    /\ reconverted = NotRun

\* the traversal reaches a declarator and calls the visitor on it
Visit ==
    /\ ~crashed
    /\ node = NoNode
    /\ \E n \in Nodes :
          /\ node' = n
          /\ out' = VariableDeclarator(cfg, n)
          /\ crashed' = VariableDeclarator(cfg, n).threw
    /\ UNCHANGED <<cfg, convCase, convName, validated, converted, reconverted>>

\* the visitor has returned; the traversal moves on to the next node
Leave ==
    /\ ~crashed
    /\ node # NoNode
    /\ node' = NoNode
    /\ out' = Idle
    /\ UNCHANGED <<cfg, crashed, convCase, convName, validated, converted, reconverted>>

Next == Visit \/ Leave

Spec == Init /\ [][Next]_vars

----------------------------------------------------------------------------
(* The CaseConvention table on its own: each validator and converter      *)
(* applied to every name over letters, digits, '_' and '-'                *)

NameAlphabet == {"a", "A", "1", "_", "-"}
Names == StringsOver(NameAlphabet, 0, MaxNameLen)

Ran(value) == [value |-> value]

ConvInit ==
    /\ cfg = DefaultOptions
    /\ node = NoNode
    /\ out = Idle
    /\ crashed = FALSE
    /\ convCase \in CaseTypes
    /\ convName \in Names
    /\ validated = NotRun
    /\ converted = NotRun
    /\ reconverted = NotRun

\* caseValidators[convCase](convName)
ValidateName ==
    /\ validated = NotRun
    /\ validated' = Ran(caseValidators(convCase, convName))
    /\ UNCHANGED <<cfg, node, out, crashed, convCase, convName, converted, reconverted>>

\* caseConverters[convCase](convName)
ConvertName ==
    /\ converted = NotRun
    /\ converted' = Ran(caseConverters(convCase, convName))
    /\ UNCHANGED <<cfg, node, out, crashed, convCase, convName, validated, reconverted>>

\* caseConverters[convCase] applied to its own result
ConvertAgain ==
    /\ converted # NotRun
    /\ reconverted = NotRun
    /\ reconverted' = Ran(caseConverters(convCase, converted.value))
    /\ UNCHANGED <<cfg, node, out, crashed, convCase, convName, validated, converted>>

ConvNext == ValidateName \/ ConvertName \/ ConvertAgain

ConvSpec == ConvInit /\ [][ConvNext]_vars

----------------------------------------------------------------------------
(* Claims about the CaseConvention table (checked under ConvSpec) *)

\* C2: for every convention and every name n over letters, digits, '_' and
\* '-', conversion is idempotent: convert(convert(n)) = convert(n).
C2_ConvertIdempotent ==
    reconverted # NotRun => reconverted.value = converted.value

\* C3: for every convention and every name n that validates under it, the
\* converter leaves n unchanged: convert(n) = n.
C3_ValidNameIsFixedPoint ==
    (validated = Ran(TRUE) /\ converted # NotRun) => converted.value = convName

\* C8 as stated: under every convention the empty string validates and
\* converts to itself.
C8_EmptyValidatesAndConverts ==
    convName = <<>> =>
        /\ validated # NotRun => validated = Ran(TRUE)
        /\ converted # NotRun => converted = Ran(<<>>)

\* C8 amended: under every convention the empty string does NOT validate
\* (every shape pattern needs a first character); it converts to itself,
\* and both calls complete.
C8_EmptyRejectedAndConverts ==
    convName = <<>> =>
        /\ validated # NotRun => validated = Ran(FALSE)
        /\ converted # NotRun => converted = Ran(<<>>)
        /\ reconverted # NotRun => reconverted = Ran(<<>>)

C8_Witness ==
    convName = <<>> /\ validated # NotRun /\ converted # NotRun /\ reconverted # NotRun


----------------------------------------------------------------------------
(* Claims about the visitor (checked under Spec) *)

Visited == out # Idle

\* the visit got past every identity-level guard and classified the declarator
Classified == Visited /\ out.exit \in {"notInScope", "checked", "valid"}

C1_InScope ==
    /\ node.id.type = "Identifier"
    /\ ~(cfg.ignoreImports /\ isImportedVariable(node))
    /\ ~isAllowedByPattern(cfg, node.id.name)
    /\ ~(isFunction(node) /\ ~cfg.checkFunctions)
    /\ (hasAnyType(cfg, node).value \/ isSimpleValue(cfg, node))

\* C1: the visitor emits a finding if and only if the declarator is in scope,
\* its name does not validate under the configured convention and the
\* converted name differs from the name; the finding carries both names.
C1_FindingIffInScopeInvalidAndRenamed ==
    Visited =>
        /\ (out.reports # {}) <=>
               (/\ C1_InScope
                /\ ~caseValidators(cfg.caseType, node.id.name)
                /\ caseConverters(cfg.caseType, node.id.name) # node.id.name)
        /\ \A r \in out.reports :
               /\ r.currentName = node.id.name
               /\ r.suggestedName = caseConverters(cfg.caseType, node.id.name)

\* an in-scope declarator whose name neither validates nor changes under
\* conversion ('_' under camelCase) was visited and nothing was reported
C1_Witness ==
    /\ Visited
    /\ C1_InScope
    /\ ~caseValidators(cfg.caseType, node.id.name)
    /\ caseConverters(cfg.caseType, node.id.name) = node.id.name
    /\ out.reports = {}

C4_IdentifierCalleeCall ==
    /\ Classified
    /\ cfg.hookPattern = NoPattern
    /\ node.init # Null
    /\ node.init.type = "CallExpression"
    /\ node.init.callee.type = "Identifier"
    /\ node.init.callee.name \notin cfg.componentCreators

C4_OtherCalleeCall ==
    /\ Classified
    /\ cfg.hookPattern = NoPattern
    /\ node.init # Null
    /\ node.init.type = "CallExpression"
    /\ node.init.callee.type # "Identifier"
    /\ ~isComponentCreator(cfg, node.init)

\* C4 as stated: with the hook pattern disabled, a call with a bare-identifier
\* callee that the factory heuristics do not flag is classified as a simple
\* value, exactly as a call with a non-identifier callee is.
C4_IdentifierCalleeIsSimple ==
    C4_IdentifierCalleeCall => out.isSimple

\* C4 amended: with the hook pattern disabled, such a call is NOT classified
\* as simple (the identifier-callee branch returns false and never reaches
\* the generic rule), while a call with a non-identifier callee that the
\* factory heuristics do not flag is classified as simple.
C4_IdentifierCalleeIsNotSimple ==
    /\ C4_IdentifierCalleeCall => ~out.isSimple
    /\ C4_OtherCalleeCall => out.isSimple

C4_Witness ==
    /\ C4_IdentifierCalleeCall
    /\ node.init.callee.name = Name_fetch
    /\ ~out.isSimple
    /\ out.exit = "notInScope"

\* factory-produced, in the words of the claim
RECURSIVE C5_FactoryProduced(_, _)
C5_FactoryProduced(c, init) ==
    /\ init # Null
    /\ \/ /\ init.type = "CallExpression"
          /\ \/ /\ init.callee.type = "Identifier"
                /\ init.callee.name \in c.componentCreators
             \/ /\ init.callee.type = "MemberExpression"
                /\ init.callee.object.type = "Identifier"
                /\ init.callee.object.name \in c.styledLibraries
             \/ /\ init.callee.type = "CallExpression"
                /\ C5_FactoryProduced(c, init.callee)
       \/ /\ init.type = "TaggedTemplateExpression"
          /\ \/ /\ init.tag.type = "Identifier"
                /\ init.tag.name \in c.styledLibraries
             \/ /\ init.tag.type = "MemberExpression"
                /\ init.tag.object.type = "Identifier"
                /\ init.tag.object.name \in c.styledLibraries

\* C5 as stated: a declarator whose initializer is factory-produced never
\* produces a finding, whatever its name, the convention and the answer of
\* the type engine.
C5_FactoryNeverReported ==
    (Visited /\ C5_FactoryProduced(cfg, node.init)) => out.reports = {}

\* C5 amended: a declarator whose initializer is factory-produced produces
\* no finding unless its type is the dynamic type (annotated any, or
\* resolved to any and not excluded by excludeTypes): a factory-produced
\* initializer is never simple, but hasAnyType alone puts the declarator
\* in scope.
C5_FactoryReportedOnlyIfAny ==
    (Visited /\ C5_FactoryProduced(cfg, node.init)) =>
        /\ ~out.isSimple
        /\ out.reports # {} => out.hasAny

C5_Witness ==
    /\ Visited
    /\ C5_FactoryProduced(cfg, node.init)
    /\ node.init.type = "CallExpression"
    /\ node.init.callee.type = "CallExpression"
    /\ out.exit = "notInScope"
    /\ ~caseValidators(cfg.caseType, node.id.name)
    /\ caseConverters(cfg.caseType, node.id.name) # node.id.name

\* the configurations that differ from c in one toggle switched from false
\* to true, or in one extra entry in one list
C6_Narrowed(c, toggles) ==
    { [c EXCEPT ![t] = TRUE] : t \in { u \in toggles : ~c[u] } }
      \cup { [c EXCEPT !.allowedPatterns = @ \cup {e}] :
                e \in {"^_.*"} \ c.allowedPatterns }
      \cup { [c EXCEPT !.excludeTypes = @ \cup {e}] :
                e \in {Name_any, Name_number} \ c.excludeTypes }
      \cup { [c EXCEPT !.componentCreators = @ \cup {e}] :
                e \in {Name_lazy, Name_fetch} \ c.componentCreators }
      \cup { [c EXCEPT !.styledLibraries = @ \cup {e}] :
                e \in {Name_styled, Name_api} \ c.styledLibraries }

\* C6 as stated: if a configuration emits no finding for a declarator, then
\* neither does the configuration with one of checkFunctions,
\* ignoreDestructuring, ignoreImports switched on or one list extended.
C6_TogglesAndListsOnlyNarrow ==
    (Visited /\ out.reports = {}) =>
        \A c2 \in C6_Narrowed(cfg, {"checkFunctions", "ignoreDestructuring", "ignoreImports"}) :
            VariableDeclarator(c2, node).reports = {}

\* C6 amended: the same for ignoreDestructuring, ignoreImports and the four
\* lists; checkFunctions is not among them (switching it on widens the
\* inspected set to function initializers).
C6_IgnoreTogglesAndListsOnlyNarrow ==
    (Visited /\ out.reports = {}) =>
        \A c2 \in C6_Narrowed(cfg, {"ignoreDestructuring", "ignoreImports"}) :
            VariableDeclarator(c2, node).reports = {}

\* a declarator with no finding that a narrowed configuration excludes at
\* another point of the guard chain than the configuration itself
C6_Witness ==
    /\ Classified
    /\ out.reports = {}
    /\ \E c2 \in C6_Narrowed(cfg, {"ignoreDestructuring", "ignoreImports"}) :
          /\ VariableDeclarator(c2, node).exit # out.exit
          /\ VariableDeclarator(c2, node).reports = {}

\* C7: if the type-engine query throws, hasAnyType returns false and nothing
\* is propagated: the visit completes, isSimpleValue alone decides whether
\* the declarator is in scope, and the traversal goes on.
C7_EngineFailureIsNotDynamic ==
    (Visited /\ out.queries > 0 /\ node.resolved = Throws) =>
        /\ ~out.threw
        /\ ~crashed
        /\ ~out.hasAny
        /\ Classified
        /\ (out.exit = "notInScope") <=> ~isSimpleValue(cfg, node)
        /\ ENABLED Leave

C7_Witness ==
    /\ Visited
    /\ out.queries > 0
    /\ node.resolved = Throws
    /\ out.isSimple
    /\ out.reports # {}
    /\ ~crashed

\* C9: during one visit the type engine is queried at most once, only after
\* every identity-level guard has failed to exclude the declarator, and not
\* at all when the identifier is annotated with the any keyword.
C9_EngineQueriedOnceAfterGuards ==
    Visited =>
        /\ out.queries <= 1
        /\ out.queries = 1 =>
              /\ node.id.type = "Identifier"
              /\ ~(cfg.ignoreImports /\ "ImportBinding" \in node.defs)
              /\ ~(\E p \in cfg.allowedPatterns : RegExpTest(RegExpOf(p), node.id.name))
              /\ ~(node.init # Null
                     /\ node.init.type \in {"ArrowFunctionExpression", "FunctionExpression"}
                     /\ ~cfg.checkFunctions)
              /\ node.id.typeAnnotation = Null

\* a declarator annotated any is checked and reported without any query
C9_Witness ==
    /\ Visited
    /\ node.id.type = "Identifier"
    /\ node.id.typeAnnotation # Null
    /\ out.queries = 0
    /\ out.hasAny
    /\ out.reports # {}

\* C10: every emitted finding carries a suggestedName, which is also the
\* fix's replacement text, that validates under the configured convention.
C10_SuggestedNameValidates ==
    Visited =>
        \A r \in out.reports :
            /\ r.fix = r.suggestedName
            /\ caseValidators(cfg.caseType, r.suggestedName)

C11_FunctionInitializer ==
    /\ Visited
    /\ node.init # Null
    /\ node.init.type \in {"ArrowFunctionExpression", "FunctionExpression"}

====
